---- MODULE Spec2Model ----
(***************************************************************************)
(* Job queue, worker loop, job handlers, sync token codec, sync endpoint    *)
(* and reading-state endpoint of kobold/kobosync.                          *)
(*                                                                         *)
(* The Job table is the sequence `jobs`; a job's id is its index, and      *)
(* created_at is the rank of its insertion (successive add_job calls read  *)
(* a microsecond wall clock with a commit in between, so creation stamps   *)
(* are distinct and increasing).  All other timestamps are seconds on the  *)
(* clock `now`.  Time passes where the program waits: in a handler, in the *)
(* worker's poll sleep, and while the process is down.  payload (except    *)
(* its dedupe_key), error_message and completed_at are never read by the   *)
(* queue or the worker and are left out of the rows; the error argument   *)
(* of complete_job is kept because it selects the status.  Where the       *)
(* handlers run, payload and error_message are kept next to the rows, in   *)
(* `jobcols`, and a Book row carries the file columns as well.             *)
(*                                                                         *)
(* The Book table is the sequence `books`, with the two columns the sync   *)
(* endpoint queries.  Header texts and token fields are records that say   *)
(* what the text is (base64 or not, a JSON document or not, the text of a  *)
(* timestamp or not), so that encoding, decoding and parsing are           *)
(* computed, not assumed.                                                  *)
(***************************************************************************)
EXTENDS Integers, Sequences, FiniteSets, Bags, TLC

VARIABLES
    jobs,     \* the Job table: Seq of job rows, id = index
    now,      \* wall clock, seconds
    wpc,      \* where the process / worker coroutine stands
    wjob,     \* the worker's local variable `job` (a detached copy of the row)
    cpc,      \* concurrent fetch_next_job callers: position inside the call
    csel,     \* ... the row each caller's SELECT returned
    cres,     \* ... what each caller's call returned
    addlast,  \* the last add_job call made with a deduplicate_key, and its result
    jobcols,  \* the Job columns the queue never reads (payload, error_message), by id
    fetched,  \* the bag of job ids fetch_next_job has returned, one copy per claim
    qcall,    \* the last complete_job / retry_job call made with an arbitrary id
    files,    \* the watched directory: what is at each path
    rstates,  \* the ReadingState table: Seq of rows
    books,    \* the Book table: Seq of book rows, id = index
    mutlog,   \* the Book mutations committed since the last sync response
    held,     \* the X-Kobo-SyncToken header text the client holds
    spc,      \* where the sync request in progress stands
    sreq,     \* sync_library's locals across its await
    sresp,    \* the last response of the sync endpoint
    codec,    \* a token on its way through to_base64 / from_base64
    restarts, \* how often the process has been started again
    horizon   \* the last second of the clock the specification explores

vars == <<jobs, now, wpc, wjob, cpc, csel, cres, addlast,
          jobcols, fetched, qcall, files, rstates,
          books, mutlog, held, spc, sreq, sresp, codec, restarts, horizon>>

-----------------------------------------------------------------------------
(* Bounds of the model *)

MaxJobs == 2
AddWindow == 10
HandlerSeconds == 10
ShortDowntime == 10
LongDowntime == 1810
NumCallers == 3
MaxRestarts == 1
MaxTime == 2500
MaxBooks == 2
MaxSyncTime == 4
MaxEvents == 3
MaxIngestTime == 400
MaxRescanEvents == 4

-----------------------------------------------------------------------------
(* Program constants *)

JOB_MAX_RETRIES == 3
JOB_STALE_MINUTES == 30
WORKER_POLL_INTERVAL == 300
WORKER_ERROR_BACKOFF == 5
BackoffBase == 10

NULL == -1
NoJob == 0

JobType == {"INGEST", "CONVERT", "METADATA"}
JobStatus == {"PENDING", "PROCESSING", "COMPLETED", "FAILED", "DEAD_LETTER"}

Callers == 1..NumCallers

\* A horizon by which every job has settled when nothing interrupts the
\* worker: after the last add_job each job needs at most JOB_MAX_RETRIES + 1
\* handler runs, each preceded by at most one poll sleep.
LiveHorizon ==
    AddWindow + WORKER_POLL_INTERVAL
        + MaxJobs * (JOB_MAX_RETRIES + 1) * (WORKER_POLL_INTERVAL + HandlerSeconds)

NoJobRow == [id |-> NoJob, type |-> "NONE", retry_count |-> 0, max_retries |-> 0]

Ids == DOMAIN jobs

\* The deduplicate_key arguments tried: the empty string, which Python takes
\* for false, and two keys.
DedupeKeys == {"", "a", "b"}

NoAddCall == [type |-> "NONE", key |-> "NULL", ret |-> NoJob]

\* No complete_job / retry_job call made by id yet.
NoQueueCall == [op |-> "NONE", id |-> NoJob, before |-> <<>>, raised |-> FALSE]

\* The watched directory: the paths of two books.  What is at a path is a
\* file's size and hash (two different files of one size), or nothing.
Paths == {"/a.epub", "/b.kepub.epub"}

SUPPORTED_EXTENSIONS == {".epub", ".pdf", ".cbz", ".cbr", ".kepub.epub"}

suffix(p) == ".epub"

NoFile == [size |-> 0, hash |-> "NONE"]

Contents == {[size |-> 7, hash |-> "h1"], [size |-> 7, hash |-> "h2"]}

-----------------------------------------------------------------------------
(* Job rows *)

NewJob(t, key, stamp) ==
    [ type          |-> t,
      dedupe_key    |-> key,
      status        |-> "PENDING",
      created_at    |-> stamp,
      started_at    |-> NULL,
      retry_count   |-> 0,
      max_retries   |-> JOB_MAX_RETRIES,
      next_retry_at |-> NULL ]

Snapshot(i, row) ==
    [ id |-> i, type |-> row.type,
      retry_count |-> row.retry_count, max_retries |-> row.max_retries ]

-----------------------------------------------------------------------------
(* JobQueue.add_job *)

\* `if deduplicate_key:` is false for None and for the empty string.
KeyGiven(key) ==
    key \notin {"NULL", ""}

\* Mutant: the status filter looks for PROCESSING.
HasProcessingDuplicate(js, t, key) ==
    \E i \in DOMAIN js :
        /\ js[i].type = t
        /\ js[i].status = "PROCESSING"
        /\ js[i].dedupe_key = key

HasPendingDuplicate(js, t, key) ==
    \E i \in DOMAIN js :
        /\ js[i].type = t
        /\ js[i].status = "PENDING"
        /\ js[i].dedupe_key = key

\* The payload gets its dedupe_key only when the key was given.
add_job(js, t, key) ==
    IF KeyGiven(key) /\ HasPendingDuplicate(js, t, key)
        THEN js
        ELSE Append(js, NewJob(t, IF KeyGiven(key) THEN key ELSE "NULL",
                               Len(js) + 1))

\* What add_job returns: None (NoJob) for a duplicate, else the new job.
add_job_returns(js, t, key) ==
    IF KeyGiven(key) /\ HasPendingDuplicate(js, t, key)
        THEN NoJob
        ELSE Len(js) + 1

-----------------------------------------------------------------------------
(* JobQueue.fetch_next_job *)

\* Mutant: the filter on next_retry_at dropped.
EligibleIgnoresDelay(row, t) ==
    row.status = "PENDING"

\* Mutant: the status filter of the query dropped.
EligibleAnyStatus(row, t) ==
    row.next_retry_at = NULL \/ row.next_retry_at <= t

Eligible(row, t) ==
    /\ row.status = "PENDING"
    /\ (row.next_retry_at = NULL \/ row.next_retry_at <= t)

\* ORDER BY next_retry_at ASC NULLS LAST: a row with a timestamp sorts before
\* a row with NULL.
NullOrder(aIsNull, bIsNull) ==
    ~aIsNull /\ bIsNull

\* Mutant: created_at sorted descending.
CreatedOrderDescending(a, b) ==
    a.created_at > b.created_at

CreatedOrder(a, b) ==
    a.created_at < b.created_at

OrderBefore(a, b) ==
    IF (a.next_retry_at = NULL) # (b.next_retry_at = NULL)
        THEN NullOrder(a.next_retry_at = NULL, b.next_retry_at = NULL)
        ELSE \/ /\ a.next_retry_at # NULL
                /\ a.next_retry_at < b.next_retry_at
             \/ /\ a.next_retry_at = b.next_retry_at
                /\ CreatedOrder(a, b)

\* The row the SELECT ... LIMIT 1 returns, NoJob when there is none.
SelectNext(js, t) ==
    LET E == {i \in DOMAIN js : Eligible(js[i], t)}
    IN  IF E = {} THEN NoJob
        ELSE CHOOSE i \in E : \A k \in E \ {i} : OrderBefore(js[i], js[k])

\* The UPDATE and commit of a claimed row.
Claim(js, i, t) ==
    [js EXCEPT ![i].status = "PROCESSING", ![i].started_at = t]

\* One more copy of the id fetch_next_job returns.
Returned(bag, i) ==
    bag (+) SetToBag({i})

-----------------------------------------------------------------------------
(* JobQueue.complete_job, retry_job, recover_stale_jobs *)

\* session.get(Job, job_id): the row, or None.
session_get(js, i) ==
    IF i \in DOMAIN js THEN i ELSE NoJob

\* Mutant: the call goes on with None.
ReturnsEarlyNever(job) ==
    FALSE

\* `if not job: ... return`
ReturnsEarly(job) ==
    job = NoJob

\* Past the early return both methods write attributes of `job`, which
\* raises AttributeError on None.
QueueCallRaises(js, i) ==
    /\ session_get(js, i) = NoJob
    /\ ~ReturnsEarly(session_get(js, i))

complete_job(js, i, error, status) ==
    IF i \notin DOMAIN js THEN js
    ELSE [js EXCEPT
            ![i].status = IF status # "NULL" THEN status
                          ELSE IF error # "NULL" THEN "FAILED"
                          ELSE "COMPLETED"]

\* Mutant: the exponent off by one.
BackoffDelayDoubled(n) ==
    BackoffBase * (2 ^ n)

BackoffDelay(n) ==
    BackoffBase * (2 ^ (n - 1))

\* Mutant: the status is not set back to PENDING.
retry_jobKeepsStatus(js, i, error, t) ==
    IF i \notin DOMAIN js THEN js
    ELSE [js EXCEPT
            ![i].retry_count = @ + 1,
            ![i].next_retry_at = t + BackoffDelay(js[i].retry_count + 1)]

retry_job(js, i, error, t) ==
    IF i \notin DOMAIN js THEN js
    ELSE [js EXCEPT
            ![i].retry_count = @ + 1,
            ![i].status = "PENDING",
            ![i].next_retry_at = t + BackoffDelay(js[i].retry_count + 1)]

\* Mutant: the threshold added to the clock instead of subtracted.
StaleCutoffSignFlipped(t) ==
    t + JOB_STALE_MINUTES * 60

StaleCutoff(t) ==
    t - JOB_STALE_MINUTES * 60

\* Mutant: the status filter of the query dropped.
IsStaleAnyStatus(row, t) ==
    /\ row.started_at # NULL
    /\ row.started_at < StaleCutoff(t)

IsStale(row, t) ==
    /\ row.status = "PROCESSING"
    /\ row.started_at < StaleCutoff(t)

\* Mutant: the loop body only counts the recovery; status and started_at
\* stay as they were.
recover_stale_jobsCountsOnly(js, t) ==
    [i \in DOMAIN js |->
        IF IsStale(js[i], t)
            THEN [js[i] EXCEPT !.retry_count = @ + 1]
            ELSE js[i]]

recover_stale_jobs(js, t) ==
    [i \in DOMAIN js |->
        IF IsStale(js[i], t)
            THEN [js[i] EXCEPT
                    !.status = "PENDING",
                    !.started_at = NULL,
                    !.retry_count = @ + 1]
            ELSE js[i]]

\* What recover_stale_jobs returns: len(stale_jobs).
recover_stale_jobs_returns(js, t) ==
    Cardinality({i \in DOMAIN js : IsStale(js[i], t)})

-----------------------------------------------------------------------------
(* Values of the token's fields.  A field is declared str | None, but the   *)
(* dataclass takes whatever the decoded document holds.  A str is either    *)
(* the text of a timestamp (iso, with the time t it writes) or another text *)
(* s.                                                                       *)

None == [kind |-> "None", iso |-> FALSE, t |-> 0, s |-> ""]

Str(text) == [kind |-> "str", iso |-> FALSE, t |-> 0, s |-> text]

Num(n) == [kind |-> "int", iso |-> FALSE, t |-> n, s |-> ""]

\* datetime.isoformat()
isoformat(t) == [kind |-> "str", iso |-> TRUE, t |-> t, s |-> ""]

\* Python's truth value of a field.
Truthy(v) ==
    \/ v.kind = "str" /\ (v.iso \/ v.s # "")
    \/ v.kind = "int" /\ v.t # 0

\* datetime.fromisoformat(v): the time, or the exception it raises.
fromisoformat(v) ==
    IF v.kind # "str" THEN [raises |-> "TypeError", t |-> NULL]
    ELSE IF ~v.iso THEN [raises |-> "ValueError", t |-> NULL]
    ELSE [raises |-> "no", t |-> v.t]

FieldNames == {"lastSuccessfulSyncPointId", "ongoingSyncPointId", "rawKoboSyncToken"}

\* KoboSyncToken(): every field at its default.
KoboSyncToken == [n \in FieldNames |-> None]

-----------------------------------------------------------------------------
(* Header texts.  A text is base64 of some bytes or it is not; the bytes are *)
(* a JSON document or not; the document is an object, with its members, or  *)
(* another JSON value.  Absent stands for a header that is not there.       *)

Absent == [enc |-> "absent", json |-> FALSE, obj |-> FALSE, fields |-> {}, text |-> ""]

\* A text that base64.b64decode rejects, or turns into bytes orjson rejects.
Text(chars) == [enc |-> "text", json |-> FALSE, obj |-> FALSE, fields |-> {}, text |-> chars]

Base64NotJson == [enc |-> "b64", json |-> FALSE, obj |-> FALSE, fields |-> {}, text |-> ""]

Base64JsonArray == [enc |-> "b64", json |-> TRUE, obj |-> FALSE, fields |-> {}, text |-> ""]

\* base64 of a JSON object with the given members, a set of <<name, value>>.
Base64Json(members) ==
    [enc |-> "b64", json |-> TRUE, obj |-> TRUE, fields |-> members, text |-> ""]

\* Mutant: ongoingSyncPointId is not written out.
asdictWithoutOngoing(tok) ==
    {<<n, tok[n]>> : n \in FieldNames \ {"ongoingSyncPointId"}}

\* dataclasses.asdict
asdict(tok) ==
    {<<n, tok[n]>> : n \in FieldNames}

to_base64(tok) ==
    Base64Json(asdict(tok))

\* cls(**data): a keyword that is no field raises TypeError; a field that is
\* not given keeps its default.
FromDict(members) ==
    [n \in FieldNames |->
        IF \E m \in members : m[1] = n
            THEN (CHOOSE m \in members : m[1] = n)[2]
            ELSE None]

\* Every exception of b64decode, orjson.loads and cls(**data) ends in cls().
from_base64(w) ==
    IF w.enc # "b64" \/ ~w.json \/ ~w.obj THEN KoboSyncToken
    ELSE IF \E m \in w.fields : m[1] \notin FieldNames THEN KoboSyncToken
    ELSE FromDict(w.fields)

\* `if not header` covers the missing header and the empty one.
from_request(w) ==
    IF w.enc = "absent" \/ (w.enc = "text" /\ w.text = "")
        THEN KoboSyncToken
        ELSE from_base64(w)

\* A str field written into a header, and a header text read into a field.
HeaderOf(v) == Text(v.s)

FieldOf(w) == Str(w.text)

-----------------------------------------------------------------------------
(* The catalog and the local part of sync_library *)

NewBook(t) == [is_deleted |-> FALSE, updated_at |-> t]

mark_updated(book, t) == [book EXCEPT !.updated_at = t]

\* Mutant: the deletion does not advance updated_at.
mark_deletedUnstamped(book, t) == [book EXCEPT !.is_deleted = TRUE]

\* The rows of the handlers carry deleted_at, those the sync endpoint reads
\* carry only the two columns it looks at.
mark_deleted(book, t) ==
    mark_updated([f \in DOMAIN book |->
                     CASE f = "is_deleted" -> TRUE
                       [] f = "deleted_at" -> t
                       [] OTHER -> book[f]], t)

NewEntitlement(b) == [tag |-> "NewEntitlement", EntitlementId |-> b]

RemoveEntitlement(b) == [tag |-> "RemoveEntitlement", EntitlementId |-> b]

BookIds(bs) == [i \in 1..Len(bs) |-> i]

\* last_sync_local: the parsed cursor, NULL when the field is empty or
\* raises ValueError.  A TypeError is not caught.
CursorRaises(tok) ==
    /\ Truthy(tok.lastSuccessfulSyncPointId)
    /\ fromisoformat(tok.lastSuccessfulSyncPointId).raises = "TypeError"

last_sync_local(tok) ==
    IF Truthy(tok.lastSuccessfulSyncPointId)
        THEN fromisoformat(tok.lastSuccessfulSyncPointId).t
        ELSE NULL

AfterCursor(book, cursor) ==
    book.updated_at > cursor

\* Mutant: without a cursor nothing is selected.
NewOrUpdatedNeedsCursor(bs, cursor) ==
    SelectSeq(BookIds(bs),
              LAMBDA b : /\ ~bs[b].is_deleted
                         /\ cursor # NULL
                         /\ AfterCursor(bs[b], cursor))

NewOrUpdated(bs, cursor) ==
    SelectSeq(BookIds(bs),
              LAMBDA b : /\ ~bs[b].is_deleted
                         /\ (cursor # NULL => AfterCursor(bs[b], cursor)))

\* Mutant: the deleted rows are queried without looking at the cursor.
DeletedSinceAlways(bs, cursor) ==
    SelectSeq(BookIds(bs), LAMBDA b : bs[b].is_deleted)

DeletedSince(bs, cursor) ==
    IF cursor = NULL THEN <<>>
    ELSE SelectSeq(BookIds(bs),
                   LAMBDA b : bs[b].is_deleted /\ AfterCursor(bs[b], cursor))

LocalEntitlements(bs, cursor) ==
    [i \in 1..Len(NewOrUpdated(bs, cursor)) |->
        NewEntitlement(NewOrUpdated(bs, cursor)[i])]
    \o [i \in 1..Len(DeletedSince(bs, cursor)) |->
        RemoveEntitlement(DeletedSince(bs, cursor)[i])]

-----------------------------------------------------------------------------
(* The proxied upstream call of a sync request *)

UpstreamEntitlement == [tag |-> "Upstream", EntitlementId |-> 0]

\* What the store can answer: the call raises, or it returns a status, with
\* or without its next cursor in X-Kobo-SyncToken, and a body that is a JSON
\* list or is not.
UpstreamReplies ==
    [raises : {TRUE}, status : {0}, token : {Absent}, list : {FALSE}, ents : {<<>>}]
    \cup [raises : {FALSE}, status : {200}, token : {Absent, Text("r2")},
          list : {TRUE}, ents : {<<UpstreamEntitlement>>}]
    \cup [raises : {FALSE}, status : {401}, token : {Text("r2")},
          list : {TRUE}, ents : {<<UpstreamEntitlement>>}]
    \cup [raises : {FALSE}, status : {200}, token : {Absent},
          list : {FALSE}, ents : {<<>>}]

\* Mutant: header names kept as written.
ResponseHeaderNameAsGiven(name) ==
    name

\* starlette's Response keeps every header name in lower case.
ResponseHeaderName(name) ==
    CASE name = "X-Kobo-SyncToken" -> "x-kobo-synctoken"
      [] name = "X-Kobo-Sync" -> "x-kobo-sync"
      [] OTHER -> name

\* The value a dict built from the headers holds under a name: the first one.
HasHeader(hs, name) ==
    \E i \in DOMAIN hs : hs[i][1] = name

HeaderGet(hs, name) ==
    hs[CHOOSE i \in DOMAIN hs :
            /\ hs[i][1] = name
            /\ \A k \in 1..(i - 1) : hs[k][1] # name][2]

\* The cursor header proxy_request sends upstream.
SentCursor(w) ==
    IF Truthy(from_request(w).rawKoboSyncToken)
        THEN HeaderOf(from_request(w).rawKoboSyncToken)
        ELSE Absent

\* proxy_request(request, path, include_sync_token=True).  httpx yields the
\* upstream's header names in lower case; the composite token is added under
\* the name to_headers gives it.
proxy_request(w, reply) ==
    IF reply.raises
        THEN [status_code |-> 502, headers |-> <<>>]
        ELSE LET upstream ==
                    IF reply.token = Absent THEN <<>>
                    ELSE << <<"x-kobo-synctoken", reply.token>> >>
                 composite ==
                    IF reply.token = Absent \/ reply.token.text = "" THEN <<>>
                    ELSE << <<"X-Kobo-SyncToken",
                              to_base64([from_request(w) EXCEPT
                                  !.rawKoboSyncToken = FieldOf(reply.token)])>> >>
                 resp_headers == upstream \o composite
             IN  [status_code |-> reply.status,
                  headers |-> [i \in DOMAIN resp_headers |->
                                  <<ResponseHeaderName(resp_headers[i][1]),
                                    resp_headers[i][2]>>]]

fetch_kobo_sync(w, reply) ==
    LET response == proxy_request(w, reply)
    IN  [status |-> response.status_code,
         headers |-> response.headers,
         ents |-> IF response.status_code = 200 /\ reply.list
                    THEN reply.ents ELSE <<>>]

\* Mutant: the upstream entries put in front of the local ones.
MergedEntitlementsUpstreamFirst(local, kobo) ==
    IF kobo.status = 200 THEN kobo.ents \o local ELSE local

\* sync_library after the upstream call: the entries and the outgoing token.
MergedEntitlements(local, kobo) ==
    IF kobo.status = 200 THEN local \o kobo.ents ELSE local

\* Mutant: ongoingSyncPointId is not cleared.
OutgoingTokenKeepsOngoing(tok, kobo, t) ==
    [tok EXCEPT !.lastSuccessfulSyncPointId = isoformat(t)]

OutgoingToken(tok, kobo, t) ==
    LET raw == IF HasHeader(kobo.headers, "X-Kobo-SyncToken")
                 THEN from_base64(HeaderGet(kobo.headers, "X-Kobo-SyncToken")).rawKoboSyncToken
                 ELSE tok.rawKoboSyncToken
    IN  [tok EXCEPT !.rawKoboSyncToken = raw,
                    !.lastSuccessfulSyncPointId = isoformat(t),
                    !.ongoingSyncPointId = None]

NoRequest == [header |-> Absent, token |-> KoboSyncToken, cursor |-> NULL,
              local |-> <<>>, since |-> <<>>]

\* inflight is no part of the response: it keeps the Book mutations that
\* were committed between the request's catalog query and its response.
NoResponse == [status |-> 0, entries |-> <<>>, local |-> <<>>, header |-> Absent,
               request |-> NoRequest, reply |-> CHOOSE r \in UpstreamReplies : r.raises,
               inflight |-> <<>>]

CodecIdle == [step |-> "idle", tok |-> KoboSyncToken, wire |-> Absent, out |-> KoboSyncToken]

-----------------------------------------------------------------------------
(* Initial state: a fresh store, the process about to run its startup *)

InitAll(h) ==
    /\ horizon = h
    /\ jobs = <<>>
    /\ now = 0
    /\ wpc = "startup"
    /\ wjob = NoJobRow
    /\ cpc = [c \in Callers |-> "idle"]
    /\ csel = [c \in Callers |-> NoJob]
    /\ cres = [c \in Callers |-> NoJob]
    /\ addlast = NoAddCall
    /\ jobcols = <<>>
    /\ fetched = EmptyBag
    /\ qcall = NoQueueCall
    /\ files = [p \in Paths |-> NoFile]
    /\ rstates = <<>>
    /\ books = <<>>
    /\ mutlog = <<>>
    /\ held = Absent
    /\ spc = "idle"
    /\ sreq = NoRequest
    /\ sresp = NoResponse
    /\ restarts = 0

InitWith(h) ==
    /\ InitAll(h)
    /\ codec = CodecIdle

Init == InitWith(MaxTime)

callerVars == <<cpc, csel, cres>>
producerVars == <<addlast>>
syncVars == <<books, mutlog, held, spc, sreq, sresp>>
handlerVars == <<jobcols, files>>
readingVars == <<rstates>>
callVars == <<qcall>>
restVars == <<handlerVars, readingVars, callVars>>
queueVars == <<jobs, wpc, wjob, callerVars, producerVars, restVars, fetched, restarts>>
boundVars == <<restarts, horizon>>

ProcessUp == wpc \notin {"down", "stopped"}

CanPass(d) == now + d <= horizon

-----------------------------------------------------------------------------
(* Producers.  The watcher and the scanner enqueue INGEST jobs; the ingest  *)
(* handler, while it runs, enqueues the METADATA and CONVERT follow-on      *)
(* jobs.  None of them passes a deduplicate_key.                            *)

CanAdd ==
    /\ ProcessUp
    /\ Len(jobs) < MaxJobs
    /\ now <= AddWindow

AddIngest ==
    /\ CanAdd
    /\ jobs' = add_job(jobs, "INGEST", "NULL")
    /\ UNCHANGED <<now, wpc, wjob, callerVars, producerVars, syncVars, restVars, fetched, codec, boundVars>>

AddFollowOn ==
    /\ CanAdd
    /\ wpc = "exec"
    /\ wjob.type = "INGEST"
    /\ \E t \in {"METADATA", "CONVERT"} : jobs' = add_job(jobs, t, "NULL")
    /\ UNCHANGED <<now, wpc, wjob, callerVars, producerVars, syncVars, restVars, fetched, codec, boundVars>>

\* A caller that passes a deduplicate_key.  No caller in the repository does;
\* this is the call of the queue's interface that add_job provides for.
AddKeyed(t, key) ==
    /\ CanAdd
    /\ jobs' = add_job(jobs, t, key)
    /\ addlast' = [type |-> t, key |-> key, ret |-> add_job_returns(jobs, t, key)]
    /\ UNCHANGED <<now, wpc, wjob, callerVars, syncVars, restVars, fetched, codec, boundVars>>

-----------------------------------------------------------------------------
(* Process startup.  lifespan calls recover_stale_jobs and creates the      *)
(* worker task, whose prologue calls recover_stale_jobs again before the    *)
(* first iteration; no other task runs in between.                          *)

Startup ==
    /\ wpc = "startup"
    /\ jobs' = recover_stale_jobs(recover_stale_jobs(jobs, now), now)
    /\ wpc' = "fetch"
    /\ UNCHANGED <<now, wjob, callerVars, producerVars, syncVars, restVars, fetched, codec, boundVars>>

-----------------------------------------------------------------------------
(* The worker loop, one action per queue transaction / suspension point.   *)
(* `job = None` at the head of an iteration is folded into the end of the  *)
(* iteration before it.                                                    *)

WorkerFetch ==
    /\ wpc = "fetch"
    /\ LET i == SelectNext(jobs, now)
       IN  IF i = NoJob
             THEN /\ wpc' = "sleep"
                  /\ UNCHANGED <<jobs, wjob, fetched>>
             ELSE /\ jobs' = Claim(jobs, i, now)
                  /\ fetched' = Returned(fetched, i)
                  /\ wjob' = Snapshot(i, jobs[i])
                  /\ wpc' = "exec"
    /\ UNCHANGED <<now, callerVars, producerVars, syncVars, restVars, codec, boundVars>>

\* Mutant: every type is taken to have a handler.
HasHandlerAlways(t) ==
    TRUE

\* match job.type: the three cases with a handler.
HasHandler(t) ==
    t \in JobType

\* case _: a type with no handler is failed at once, in the same
\* uninterrupted run of the coroutine as the claim.  The producers above
\* enqueue only members of JobType; AddUnknown below does not.
WorkerUnknownType ==
    /\ wpc = "exec"
    /\ ~HasHandler(wjob.type)
    /\ jobs' = complete_job(jobs, wjob.id, "unknown_type", "FAILED")
    /\ wpc' = "fetch"
    /\ wjob' = NoJobRow
    /\ UNCHANGED <<now, callerVars, producerVars, syncVars, restVars, fetched, codec, boundVars>>

HandlerReturn ==
    /\ wpc = "exec"
    /\ HasHandler(wjob.type)
    /\ CanPass(HandlerSeconds)
    /\ now' = now + HandlerSeconds
    /\ jobs' = complete_job(jobs, wjob.id, "NULL", "NULL")
    /\ wpc' = "fetch"
    /\ wjob' = NoJobRow
    /\ UNCHANGED <<callerVars, producerVars, syncVars, restVars, fetched, codec, boundVars>>

\* Mutant: <= for <.
ShouldRetryOffByOne(job) ==
    job.retry_count <= job.max_retries

ShouldRetry(job) ==
    job.retry_count < job.max_retries

OnFailure(js, job, error, t) ==
    IF ShouldRetry(job)
        THEN retry_job(js, job.id, error, t)
        ELSE complete_job(js, job.id, error, "DEAD_LETTER")

HandlerRaise ==
    /\ wpc = "exec"
    /\ HasHandler(wjob.type)
    /\ CanPass(HandlerSeconds)
    /\ now' = now + HandlerSeconds
    /\ jobs' = OnFailure(jobs, wjob, "handler", now')
    /\ wpc' = "fetch"
    /\ wjob' = NoJobRow
    /\ UNCHANGED <<callerVars, producerVars, syncVars, restVars, fetched, codec, boundVars>>

WorkerWake ==
    /\ wpc = "sleep"
    /\ CanPass(WORKER_POLL_INTERVAL)
    /\ now' = now + WORKER_POLL_INTERVAL
    /\ wpc' = "fetch"
    /\ UNCHANGED <<jobs, wjob, callerVars, producerVars, syncVars, restVars, fetched, codec, boundVars>>

\* The loop condition finds stop_event set.
WorkerStopEvent ==
    /\ wpc = "fetch"
    /\ wpc' = "stopped"
    /\ UNCHANGED <<jobs, now, wjob, callerVars, producerVars, syncVars, restVars, fetched, codec, boundVars>>

\* worker_task.cancel(): CancelledError is raised at the await the coroutine
\* is suspended in; it is not an Exception, so only the outer handler sees it.
WorkerCancel ==
    /\ \/ wpc = "exec" /\ HasHandler(wjob.type)
       \/ wpc = "sleep"
    /\ wpc' = "stopped"
    /\ UNCHANGED <<jobs, now, wjob, callerVars, producerVars, syncVars, restVars, fetched, codec, boundVars>>

-----------------------------------------------------------------------------
(* The environment: the process dies, and is started again later *)

Crash ==
    /\ ProcessUp
    /\ wpc' = "down"
    /\ wjob' = NoJobRow
    /\ UNCHANGED <<jobs, now, callerVars, producerVars, syncVars, restVars, fetched, codec, boundVars>>

Restart ==
    /\ ~ProcessUp
    /\ \E d \in {ShortDowntime, LongDowntime} :
          /\ CanPass(d)
          /\ now' = now + d
    /\ restarts < MaxRestarts
    /\ restarts' = restarts + 1
    /\ wpc' = "startup"
    /\ wjob' = NoJobRow
    /\ UNCHANGED <<jobs, callerVars, producerVars, syncVars, restVars, fetched, codec, horizon>>

Next ==
    \/ AddIngest
    \/ AddFollowOn
    \/ Startup
    \/ WorkerFetch
    \/ HandlerReturn
    \/ HandlerRaise
    \/ WorkerWake
    \/ WorkerStopEvent
    \/ WorkerCancel
    \/ Crash
    \/ Restart

Spec == Init /\ [][Next]_vars

-----------------------------------------------------------------------------
(* The worker left alone: no crash, no cancellation, no stop event.  The    *)
(* event loop runs a ready coroutine, a sleep ends, and a handler either    *)
(* returns or raises.                                                       *)

InitLive == InitWith(LiveHorizon)

NextLive ==
    \/ AddIngest
    \/ AddFollowOn
    \/ Startup
    \/ WorkerFetch
    \/ HandlerReturn
    \/ HandlerRaise
    \/ WorkerWake

SpecLive ==
    /\ InitLive
    /\ [][NextLive]_vars
    /\ WF_vars(Startup)
    /\ WF_vars(WorkerFetch)
    /\ WF_vars(HandlerReturn \/ HandlerRaise)
    /\ WF_vars(WorkerWake)

-----------------------------------------------------------------------------
(* Several callers inside fetch_next_job at once, each in its own Session:  *)
(* the SELECT reads the committed table, and the UPDATE of the selected row *)
(* by primary key is committed later, whatever the row's status is by then. *)

CallerSelect(c) ==
    /\ cpc[c] = "idle"
    /\ LET i == SelectNext(jobs, now)
       IN  /\ csel' = [csel EXCEPT ![c] = i]
           /\ cpc' = [cpc EXCEPT ![c] = IF i = NoJob THEN "done" ELSE "selected"]
    /\ UNCHANGED <<jobs, now, wpc, wjob, cres, producerVars, syncVars, restVars, fetched, codec, boundVars>>

CallerCommit(c) ==
    /\ cpc[c] = "selected"
    /\ jobs' = Claim(jobs, csel[c], now)
    /\ fetched' = Returned(fetched, csel[c])
    /\ cres' = [cres EXCEPT ![c] = csel[c]]
    /\ cpc' = [cpc EXCEPT ![c] = "done"]
    /\ UNCHANGED <<now, wpc, wjob, csel, producerVars, syncVars, restVars, codec, boundVars>>

NextFetch ==
    \/ AddIngest
    \/ \E c \in Callers : CallerSelect(c)
    \/ \E c \in Callers : CallerCommit(c)

SpecFetch == Init /\ [][NextFetch]_vars

-----------------------------------------------------------------------------
(* Producers that pass a deduplicate_key, next to the running worker *)

NextDedupe ==
    \/ \E t \in JobType : \E key \in DedupeKeys : AddKeyed(t, key)
    \/ Startup
    \/ WorkerFetch
    \/ HandlerReturn
    \/ HandlerRaise
    \/ WorkerWake

SpecDedupe == Init /\ [][NextDedupe]_vars

-----------------------------------------------------------------------------
(* A Job row whose type none of the worker's cases matches, next to the     *)
(* jobs of the producers.                                                   *)

AddUnknown ==
    /\ CanAdd
    /\ jobs' = add_job(jobs, "UNKNOWN", "NULL")
    /\ UNCHANGED <<now, wpc, wjob, callerVars, producerVars, syncVars, restVars, fetched, codec, boundVars>>

NextUnknown ==
    \/ AddIngest
    \/ AddUnknown
    \/ Startup
    \/ WorkerFetch
    \/ WorkerUnknownType
    \/ HandlerReturn
    \/ HandlerRaise
    \/ WorkerWake

SpecUnknown == InitLive /\ [][NextUnknown]_vars

-----------------------------------------------------------------------------
(* Queue calls that raise inside the worker loop.  A call that raises      *)
(* leaves the table as it was: its Session is closed without a commit.     *)

FaultHorizon == 4 * HandlerSeconds

InitFault == InitWith(FaultHorizon)

\* fetch_next_job raises: job is None, the outer except clause logs and
\* sleeps WORKER_ERROR_BACKOFF, the loop goes on.
FetchRaises ==
    /\ wpc = "fetch"
    /\ CanPass(WORKER_ERROR_BACKOFF)
    /\ now' = now + WORKER_ERROR_BACKOFF
    /\ UNCHANGED <<jobs, wpc, wjob, callerVars, producerVars, syncVars, restVars,
                   fetched, codec, boundVars>>

\* The queue calls an iteration can make once its handler has ended:
\* complete_job when the handler returned, then the call of the inner
\* except clause, then the call of the outer one.
CallsLeft(returned) ==
    IF returned THEN 3 ELSE 2

\* The handler returned or raised, and the first n queue calls after it
\* raise.  The call that follows them applies the retry / dead-letter
\* decision; when it was the outer clause's, the worker sleeps
\* WORKER_ERROR_BACKOFF after it.  When the outer clause's call raises too,
\* the exception is raised inside an except clause and leaves worker():
\* the task ends with the job as it was claimed.
QueueCallsRaise(returned, n) ==
    /\ wpc = "exec"
    /\ HasHandler(wjob.type)
    /\ n \in 1..CallsLeft(returned)
    /\ LET backoff == IF n = CallsLeft(returned) - 1 THEN WORKER_ERROR_BACKOFF ELSE 0
       IN  /\ CanPass(HandlerSeconds + backoff)
           /\ now' = now + HandlerSeconds + backoff
    /\ IF n < CallsLeft(returned)
         THEN /\ jobs' = OnFailure(jobs, wjob, "queue", now + HandlerSeconds)
              /\ wpc' = "fetch"
              /\ wjob' = NoJobRow
         ELSE /\ wpc' = "failed"
              /\ UNCHANGED <<jobs, wjob>>
    /\ UNCHANGED <<callerVars, producerVars, syncVars, restVars, fetched, codec, boundVars>>

NextFault ==
    \/ AddIngest
    \/ Startup
    \/ WorkerFetch
    \/ FetchRaises
    \/ HandlerReturn
    \/ HandlerRaise
    \/ \E returned \in BOOLEAN : \E n \in 1..3 : QueueCallsRaise(returned, n)

SpecFault == InitFault /\ [][NextFault]_vars

-----------------------------------------------------------------------------
(* complete_job and retry_job called by id from outside the worker: with    *)
(* the id of a claimed job, as the worker calls them, and with ids the      *)
(* table does not hold.                                                     *)

CanCall(i) ==
    /\ ProcessUp
    /\ i \in Ids => jobs[i].status = "PROCESSING"

CallIds == 1..(MaxJobs + 1)

\* Time for two handler runs; the calls themselves take none.
CallHorizon == 2 * HandlerSeconds

InitCalls == InitWith(CallHorizon)

CallComplete(i, error, status) ==
    /\ CanCall(i)
    /\ jobs' = complete_job(jobs, i, error, status)
    /\ qcall' = [op |-> "complete_job", id |-> i, before |-> jobs,
                 raised |-> QueueCallRaises(jobs, i)]
    /\ UNCHANGED <<now, wpc, wjob, callerVars, producerVars, syncVars, handlerVars, readingVars, fetched, codec, boundVars>>

CallRetry(i) ==
    /\ CanCall(i)
    /\ i \in Ids => jobs[i].retry_count < JOB_MAX_RETRIES
    /\ jobs' = retry_job(jobs, i, "call", now)
    /\ qcall' = [op |-> "retry_job", id |-> i, before |-> jobs,
                 raised |-> QueueCallRaises(jobs, i)]
    /\ UNCHANGED <<now, wpc, wjob, callerVars, producerVars, syncVars, handlerVars, readingVars, fetched, codec, boundVars>>

NextCalls ==
    \/ AddIngest
    \/ Startup
    \/ WorkerFetch
    \/ HandlerReturn
    \/ HandlerRaise
    \/ \E i \in CallIds : \E error \in {"NULL", "call"} :
          \E status \in {"NULL", "FAILED", "DEAD_LETTER"} :
             CallComplete(i, error, status)
    \/ \E i \in CallIds : CallRetry(i)

SpecCalls == InitCalls /\ [][NextCalls]_vars

-----------------------------------------------------------------------------
(* The sync endpoint next to a changing catalog.  Every reading of the clock *)
(* is later than the one before it.  A request runs in two steps, before    *)
(* and after its await of the upstream call; the catalog changes are the    *)
(* commits of the handlers.                                                 *)

InitSync == InitWith(MaxSyncTime)

BookCreate ==
    /\ Len(books) < MaxBooks
    /\ CanPass(1)
    /\ now' = now + 1
    /\ books' = Append(books, NewBook(now'))
    /\ mutlog' = Append(mutlog, [op |-> "create", id |-> Len(books) + 1])
    /\ UNCHANGED <<held, spc, sreq, sresp, queueVars, codec, horizon>>

BookUpdate(b) ==
    /\ CanPass(1)
    /\ now' = now + 1
    /\ books' = [books EXCEPT ![b] = mark_updated(@, now')]
    /\ mutlog' = Append(mutlog, [op |-> "update", id |-> b])
    /\ UNCHANGED <<held, spc, sreq, sresp, queueVars, codec, horizon>>

BookDelete(b) ==
    /\ CanPass(1)
    /\ now' = now + 1
    /\ books' = [books EXCEPT ![b] = mark_deleted(@, now')]
    /\ mutlog' = Append(mutlog, [op |-> "delete", id |-> b])
    /\ UNCHANGED <<held, spc, sreq, sresp, queueVars, codec, horizon>>

BookRestore(b) ==
    /\ books[b].is_deleted
    /\ CanPass(1)
    /\ now' = now + 1
    /\ books' = [books EXCEPT ![b] = mark_updated([@ EXCEPT !.is_deleted = FALSE], now')]
    /\ mutlog' = Append(mutlog, [op |-> "restore", id |-> b])
    /\ UNCHANGED <<held, spc, sreq, sresp, queueVars, codec, horizon>>

\* The header texts a client presents besides the one it holds: none, the
\* empty one, texts that do not decode, a document with members missing, one
\* with a cursor that is no string, and a token with a cursor that is no
\* timestamp.
ClientTexts ==
    { Absent, Text(""), Text("0"), Base64NotJson,
      Base64Json({<<"rawKoboSyncToken", Str("r1")>>}),
      Base64Json({<<"lastSuccessfulSyncPointId", Num(5)>>}),
      to_base64([KoboSyncToken EXCEPT
                    !.lastSuccessfulSyncPointId = Str("invalid-date"),
                    !.ongoingSyncPointId = Str("o")]) }

\* sync_library up to its await of fetch_kobo_sync.  An exception that is
\* not caught ends the request with status 500.
SyncRequest(w) ==
    /\ spc = "idle"
    /\ LET tok == from_request(w)
       IN  IF CursorRaises(tok)
             THEN /\ sresp' = [NoResponse EXCEPT
                                  !.status = 500,
                                  !.request = [NoRequest EXCEPT
                                                  !.header = w, !.token = tok]]
                  /\ UNCHANGED <<spc, sreq>>
             ELSE /\ sreq' = [header |-> w,
                              token  |-> tok,
                              cursor |-> last_sync_local(tok),
                              local  |-> LocalEntitlements(books, last_sync_local(tok)),
                              since  |-> mutlog]
                  /\ spc' = "upstream"
                  /\ UNCHANGED sresp
    /\ UNCHANGED <<books, mutlog, held, now, queueVars, codec, horizon>>

\* sync_library from the return of fetch_kobo_sync to its response.
SyncRespond ==
    /\ spc = "upstream"
    /\ CanPass(1)
    /\ now' = now + 1
    /\ \E reply \in UpstreamReplies :
          LET kobo == fetch_kobo_sync(sreq.header, reply)
              out  == OutgoingToken(sreq.token, kobo, now')
          IN  /\ sresp' = [status  |-> 200,
                           entries |-> MergedEntitlements(sreq.local, kobo),
                           local   |-> sreq.local,
                           header  |-> to_base64(out),
                           request |-> sreq,
                           reply   |-> reply,
                           inflight |-> SubSeq(mutlog, Len(sreq.since) + 1, Len(mutlog))]
              /\ held' = to_base64(out)
    /\ spc' = "idle"
    /\ sreq' = NoRequest
    /\ mutlog' = <<>>
    /\ UNCHANGED <<books, queueVars, codec, horizon>>

NextSync ==
    \/ BookCreate
    \/ \E b \in DOMAIN books : BookUpdate(b)
    \/ \E b \in DOMAIN books : BookDelete(b)
    \/ \E b \in DOMAIN books : BookRestore(b)
    \/ \E w \in ClientTexts \cup {held} : SyncRequest(w)
    \/ SyncRespond

SpecSync == InitSync /\ [][NextSync]_vars

-----------------------------------------------------------------------------
(* The three handlers next to the watched directory.  A handler's result is *)
(* the record of the Book table it leaves, the follow-on jobs it enqueues   *)
(* and the exception it raises ("NULL" for none).  The queries of           *)
(* _handle_add and its commit run in one Session with no await in between.  *)

NoPath == "NULL"

CONVERT_EPUB == TRUE

\* Book(...): the row of a new file, with the columns the handlers read
\* next to those the sync endpoint reads.
IngestedBook(path, file, t) ==
    NewBook(t) @@ [ file_path    |-> path,
                    file_size    |-> file.size,
                    file_hash    |-> file.hash,
                    is_converted |-> FALSE,
                    kepub_path   |-> NoPath,
                    deleted_at   |-> NULL ]

\* .first() of a query: the first of the matching rows' indices, 0 for None.
First(matching) ==
    IF matching = {} THEN 0
    ELSE CHOOSE b \in matching : \A k \in matching : b <= k

BookBySizeAndHash(bs, file) ==
    First({b \in DOMAIN bs :
              bs[b].file_size = file.size /\ bs[b].file_hash = file.hash})

BookByPath(bs, path) ==
    First({b \in DOMAIN bs : bs[b].file_path = path})

\* file_path is declared unique: a commit that gives a second row the path
\* of another raises IntegrityError.
PathTaken(bs, b, path) ==
    \E k \in DOMAIN bs \ {b} : bs[k].file_path = path

Payload(event, path, b) ==
    [event |-> event, path |-> path, book_id |-> b]

Outcome(bs, adds, exception) ==
    [books |-> bs, adds |-> adds, raises |-> exception]

is_epub(path) == suffix(path) = ".epub"

\* Mutant: no stem is taken to end with ".kepub".
is_already_kepubNever(path) == FALSE

\* filepath.stem.lower().endswith(".kepub")
is_already_kepub(path) == path = "/b.kepub.epub"

FollowOnJobs(path, b) ==
    <<[type |-> "METADATA", payload |-> Payload("NONE", NoPath, b)]>>
    \o IF CONVERT_EPUB /\ is_epub(path) /\ ~is_already_kepub(path)
          THEN <<[type |-> "CONVERT", payload |-> Payload("NONE", NoPath, b)]>>
          ELSE <<>>

\* Mutant: the same-path branch clears the deleted flag and stamps the row.
SamePathRestores(bs, b, t) ==
    [bs EXCEPT ![b] = mark_updated([@ EXCEPT !.is_deleted = FALSE], t)]

\* The else branch of `if existing_book.file_path != str(filepath)`: a debug
\* line, nothing written.
SamePath(bs, b, t) ==
    bs

_handle_add(bs, fs, path, t) ==
    LET file   == fs[path]
        byhash == BookBySizeAndHash(bs, file)
        bypath == BookByPath(bs, path)
    IN  IF file = NoFile THEN Outcome(bs, <<>>, "NULL")
        ELSE IF suffix(path) \notin SUPPORTED_EXTENSIONS THEN Outcome(bs, <<>>, "NULL")
        ELSE IF byhash # 0
          THEN IF bs[byhash].file_path # path
                 THEN IF PathTaken(bs, byhash, path)
                        THEN Outcome(bs, <<>>, "IntegrityError")
                        ELSE Outcome(
                               [bs EXCEPT ![byhash] =
                                   mark_updated([@ EXCEPT !.file_path = path,
                                                          !.is_deleted = FALSE,
                                                          !.deleted_at = NULL], t)],
                               <<>>, "NULL")
                 ELSE Outcome(SamePath(bs, byhash, t), <<>>, "NULL")
        ELSE IF bypath # 0
          THEN Outcome(
                 [bs EXCEPT ![bypath] =
                     mark_updated([@ EXCEPT !.file_hash = file.hash,
                                            !.file_size = file.size,
                                            !.is_deleted = FALSE,
                                            !.deleted_at = NULL], t)],
                 <<>>, "NULL")
        ELSE Outcome(Append(bs, IngestedBook(path, file, t)),
                     FollowOnJobs(path, Len(bs) + 1), "NULL")

_handle_delete(bs, path, t) ==
    IF BookByPath(bs, path) # 0
        THEN Outcome([bs EXCEPT ![BookByPath(bs, path)] = mark_deleted(@, t)],
                     <<>>, "NULL")
        ELSE Outcome(bs, <<>>, "NULL")

\* IngestService.process_job
ingest_process_job(bs, fs, payload, t) ==
    IF payload.path = NoPath THEN Outcome(bs, <<>>, "NULL")
    ELSE IF payload.event = "DELETE" THEN _handle_delete(bs, payload.path, t)
    ELSE IF payload.event = "ADD" THEN _handle_add(bs, fs, payload.path, t)
    ELSE Outcome(bs, <<>>, "NULL")

\* original_path.with_suffix(".kepub.epub")
with_suffix(path) ==
    IF path = "/a.epub" THEN "/a.kepub.epub" ELSE "/b.kepub.kepub.epub"

\* Mutant: a null result is taken for a success that records nothing.
ConversionResultIgnored(bs, b, kepub_path, t) ==
    IF kepub_path # NoPath
        THEN Outcome([bs EXCEPT ![b] =
                         mark_updated([@ EXCEPT !.kepub_path = kepub_path,
                                                !.is_converted = TRUE], t)],
                     <<>>, "NULL")
        ELSE Outcome(bs, <<>>, "NULL")

\* `if kepub_path: ... else: raise RuntimeError(...)`
ConversionResult(bs, b, kepub_path, t) ==
    IF kepub_path # NoPath
        THEN Outcome([bs EXCEPT ![b] =
                         mark_updated([@ EXCEPT !.kepub_path = kepub_path,
                                                !.is_converted = TRUE], t)],
                     <<>>, "NULL")
        ELSE Outcome(bs, <<>>, "RuntimeError")

\* ConversionJobService.process_job; kepub_path is what the converter
\* returns, NoPath for None.
convert_process_job(bs, fs, payload, kepub_path, t) ==
    LET b == payload.book_id
    IN  IF b = 0 \/ b \notin DOMAIN bs THEN Outcome(bs, <<>>, "NULL")
        ELSE IF bs[b].is_converted THEN Outcome(bs, <<>>, "NULL")
        ELSE IF fs[bs[b].file_path] = NoFile
          THEN Outcome(bs, <<>>, "FileNotFoundError")
        ELSE ConversionResult(bs, b, kepub_path, t)

\* MetadataJobService.process_job; changed says whether a field the
\* providers returned differs from the Book's.
metadata_process_job(bs, payload, changed, t) ==
    LET b == payload.book_id
    IN  IF b = 0 \/ b \notin DOMAIN bs THEN Outcome(bs, <<>>, "NULL")
        ELSE IF changed THEN Outcome([bs EXCEPT ![b] = mark_updated(@, t)], <<>>, "NULL")
        ELSE Outcome(bs, <<>>, "NULL")

\* add_job for each follow-on job in turn.
AddAll(js, adds) ==
    IF adds = <<>> THEN js
    ELSE IF Len(adds) = 1 THEN add_job(js, adds[1].type, "NULL")
    ELSE add_job(add_job(js, adds[1].type, "NULL"), adds[2].type, "NULL")

JobCols(payload) == [payload |-> payload, error_message |-> "NULL"]

ColsOfAll(cols, adds) ==
    cols \o [k \in DOMAIN adds |-> JobCols(adds[k].payload)]

InitIngest == InitWith(MaxIngestTime)

\* An INGEST job with the event and the path as its payload.
CanEnqueueEvent ==
    /\ ProcessUp
    /\ Cardinality({i \in Ids : jobs[i].type = "INGEST"}) < MaxEvents

EnqueueEvent(event, path) ==
    /\ jobs' = add_job(jobs, "INGEST", "NULL")
    /\ jobcols' = Append(jobcols, JobCols(Payload(event, path, 0)))

\* A file is written into the watched directory, or over a file in it, and
\* the watcher enqueues the change it saw.
FileWrite(path, file) ==
    /\ CanEnqueueEvent
    /\ files[path] # file
    /\ files' = [files EXCEPT ![path] = file]
    /\ EnqueueEvent(IF files[path] = NoFile THEN "ADD" ELSE "MODIFIED", path)
    /\ UNCHANGED <<now, wpc, wjob, callerVars, producerVars, readingVars,
                   callVars, fetched, syncVars, codec, boundVars>>

FileRemove(path) ==
    /\ CanEnqueueEvent
    /\ files[path] # NoFile
    /\ files' = [files EXCEPT ![path] = NoFile]
    /\ EnqueueEvent("DELETE", path)
    /\ UNCHANGED <<now, wpc, wjob, callerVars, producerVars, readingVars,
                   callVars, fetched, syncVars, codec, boundVars>>

\* The library scan enqueues ADD for a supported file it finds.
ScanFile(path) ==
    /\ CanEnqueueEvent
    /\ files[path] # NoFile
    /\ suffix(path) \in SUPPORTED_EXTENSIONS
    /\ EnqueueEvent("ADD", path)
    /\ UNCHANGED <<now, wpc, wjob, callerVars, producerVars, files, readingVars,
                   callVars, fetched, syncVars, codec, boundVars>>

\* The worker's iteration from the await of a handler to complete_job, or
\* to retry_job / DEAD_LETTER when the handler raised.
Settle(out, t) ==
    /\ books' = out.books
    /\ IF out.raises = "NULL"
         THEN /\ jobs' = complete_job(AddAll(jobs, out.adds), wjob.id, "NULL", "NULL")
              /\ jobcols' = ColsOfAll(jobcols, out.adds)
         ELSE /\ jobs' = OnFailure(jobs, wjob, out.raises, t)
              /\ jobcols' = [jobcols EXCEPT ![wjob.id].error_message = out.raises]
    /\ wpc' = "fetch"
    /\ wjob' = NoJobRow
    /\ mutlog' = IF books' = books THEN mutlog
                 ELSE Append(mutlog, [op |-> "handler", id |-> wjob.id])
    /\ UNCHANGED <<callerVars, producerVars, files, readingVars, callVars, fetched,
                   held, spc, sreq, sresp, codec, boundVars>>

HandlerRun(type) ==
    /\ wpc = "exec"
    /\ wjob.type = type
    /\ CanPass(HandlerSeconds)
    /\ now' = now + HandlerSeconds

IngestRun ==
    /\ HandlerRun("INGEST")
    /\ Settle(ingest_process_job(books, files, jobcols[wjob.id].payload, now'), now')

MetadataRun ==
    /\ HandlerRun("METADATA")
    /\ \E changed \in BOOLEAN :
          Settle(metadata_process_job(books, jobcols[wjob.id].payload, changed, now'), now')

\* What converter.convert returns: the output path, or None.
ConverterReturns(bs, payload, converted) ==
    IF converted /\ payload.book_id \in DOMAIN bs
        THEN with_suffix(bs[payload.book_id].file_path)
        ELSE NoPath

ConvertRun(converted) ==
    /\ HandlerRun("CONVERT")
    /\ Settle(convert_process_job(books, files, jobcols[wjob.id].payload,
                                  ConverterReturns(books, jobcols[wjob.id].payload, converted),
                                  now'),
              now')

NextIngest ==
    \/ \E path \in Paths : \E file \in Contents : FileWrite(path, file)
    \/ \E path \in Paths : FileRemove(path)
    \/ \E path \in Paths : ScanFile(path)
    \/ Startup
    \/ WorkerFetch
    \/ WorkerWake
    \/ IngestRun
    \/ MetadataRun
    \/ \E converted \in BOOLEAN : ConvertRun(converted)

SpecIngest == InitIngest /\ [][NextIngest]_vars

\* The library scan finds a file once more, after the events the watcher
\* sent.
RescanFile(path) ==
    /\ ProcessUp
    /\ Cardinality({i \in Ids : jobs[i].type = "INGEST"}) < MaxRescanEvents
    /\ files[path] # NoFile
    /\ suffix(path) \in SUPPORTED_EXTENSIONS
    /\ EnqueueEvent("ADD", path)
    /\ UNCHANGED <<now, wpc, wjob, callerVars, producerVars, files, readingVars,
                   callVars, fetched, syncVars, codec, boundVars>>

\* _handle_add commits its new Book and the add_job call that follows
\* raises (the queue's table is not writable): the Book stays, no job is
\* enqueued, and the worker's except branch takes the ingest job.
IngestEnqueueFails ==
    /\ HandlerRun("INGEST")
    /\ LET out == ingest_process_job(books, files, jobcols[wjob.id].payload, now')
       IN  /\ out.adds # <<>>
           /\ Settle(Outcome(out.books, <<>>, "OperationalError"), now')

NextRescan ==
    \/ \E path \in Paths : \E file \in Contents : FileWrite(path, file)
    \/ \E path \in Paths : RescanFile(path)
    \/ Startup
    \/ WorkerFetch
    \/ WorkerWake
    \/ IngestRun
    \/ IngestEnqueueFails
    \/ MetadataRun
    \/ \E converted \in BOOLEAN : ConvertRun(converted)

SpecRescan == InitIngest /\ [][NextRescan]_vars

-----------------------------------------------------------------------------
(* The reading-state endpoint for local books.  A request body's first      *)
(* ReadingStates entry is the record of the members it holds: Status from   *)
(* StatusInfo, ProgressPercent and the Location's Value from                *)
(* CurrentBookmark, each possibly missing.  Location Type and Source and    *)
(* the Statistics are copied the same way as the Value and are left out.    *)

Missing == [kind |-> "Missing", s |-> "", n |-> 0]

JsonNull == [kind |-> "Null", s |-> "", n |-> 0]

JsonStr(text) == [kind |-> "Str", s |-> text, n |-> 0]

JsonNum(k) == [kind |-> "Num", s |-> "", n |-> k]

\* ReadingState(book_id=...): the column defaults.
NewReadingState(b, t) ==
    [ book_id          |-> b,
      status           |-> JsonStr("Unread"),
      progress_percent |-> JsonNum(0),
      location_value   |-> JsonNull,
      last_modified    |-> t ]

\* dict.get(key, default)
Get(member, default) ==
    IF member = Missing THEN default ELSE member

\* The assignments from the incoming entry, then mark_updated.
UpdateFromIncoming(state, incoming, t) ==
    [state EXCEPT
        !.status           = Get(incoming.Status, @),
        !.progress_percent = Get(incoming.ProgressPercent, @),
        !.location_value   = Get(incoming.LocationValue, @),
        !.last_modified    = t]

\* select(ReadingState).where(book_id == ...).first(): the row's index, 0
\* for None.
StateOf(rs, b) ==
    IF \E i \in DOMAIN rs : rs[i].book_id = b
        THEN CHOOSE i \in DOMAIN rs :
                /\ rs[i].book_id = b
                /\ \A k \in DOMAIN rs : rs[k].book_id = b => i <= k
        ELSE 0

\* The body of update_reading_state past its checks of the request.  The
\* assignments, mark_updated and the commit are all inside `if not state:`.
update_reading_state(rs, b, incoming, t) ==
    IF StateOf(rs, b) = 0
        THEN Append(rs, UpdateFromIncoming(NewReadingState(b, t), incoming, t))
        ELSE rs

LocalBookIds == 1..MaxBooks

\* The entries the device sends: complete ones and one with StatusInfo only.
IncomingStates ==
    { [Status |-> JsonStr("Reading"), ProgressPercent |-> JsonNum(10),
       LocationValue |-> JsonStr("c1")],
      [Status |-> JsonStr("Finished"), ProgressPercent |-> JsonNum(100),
       LocationValue |-> JsonStr("c9")],
      [Status |-> JsonStr("Reading"), ProgressPercent |-> Missing,
       LocationValue |-> Missing] }

PutReadingState(b, incoming) ==
    /\ CanPass(1)
    /\ now' = now + 1
    /\ rstates' = update_reading_state(rstates, b, incoming, now')
    /\ UNCHANGED <<jobs, wpc, wjob, callerVars, producerVars, handlerVars, callVars, fetched,
                   syncVars, codec, boundVars>>

NextReading ==
    \E b \in LocalBookIds : \E incoming \in IncomingStates :
        PutReadingState(b, incoming)

SpecReading == InitSync /\ [][NextReading]_vars

-----------------------------------------------------------------------------
(* The codec alone: a token is encoded and decoded again, a text is decoded *)

CodecValues == {None, Str(""), Str("r1"), isoformat(1)}

CodecTokens == [FieldNames -> CodecValues]

\* The texts decoded: those of the clients, a JSON value that is no object,
\* and a document with a member that is no field of the token.
CodecTexts ==
    ClientTexts
    \cup { Base64JsonArray,
           Base64Json({<<"rawKoboSyncToken", Str("r1")>>, <<"futureField", Str("x")>>}) }

InitCodec ==
    /\ InitAll(MaxTime)
    /\ codec \in {[CodecIdle EXCEPT !.step = "token", !.tok = tok] : tok \in CodecTokens}
            \cup {[CodecIdle EXCEPT !.step = "text", !.wire = w] : w \in CodecTexts}

Encode ==
    /\ codec.step = "token"
    /\ codec' = [codec EXCEPT !.step = "encoded", !.wire = to_base64(codec.tok)]
    /\ UNCHANGED <<now, syncVars, queueVars, horizon>>

Decode ==
    /\ codec.step \in {"encoded", "text"}
    /\ codec' = [codec EXCEPT
                    !.step = IF codec.step = "encoded" THEN "roundtrip" ELSE "decoded",
                    !.out = from_base64(codec.wire)]
    /\ UNCHANGED <<now, syncVars, queueVars, horizon>>

NextCodec ==
    \/ Encode
    \/ Decode

SpecCodec == InitCodec /\ [][NextCodec]_vars

-----------------------------------------------------------------------------
(* Properties *)

Terminal == {"COMPLETED", "FAILED", "DEAD_LETTER"}

\* C1: concurrent fetch_next_job calls never return one job to two callers
\* (with one eligible job, one caller gets it and the others get null).
C1_ClaimExclusive ==
    \A c1 \in Callers : \A c2 \in Callers \ {c1} :
        cres[c1] # NoJob => cres[c1] # cres[c2]

\* C2: when the handler of the claimed job raises, the job goes back to
\* PENDING with retry_count + 1 if retry_count < max_retries and to
\* DEAD_LETTER otherwise; a DEAD_LETTER job never changes status again.
C2_RetryOrDeadLetter ==
    [][ /\ HandlerRaise =>
            LET old == jobs[wjob.id]
                new == jobs'[wjob.id]
            IN  IF old.retry_count < old.max_retries
                  THEN /\ new.status = "PENDING"
                       /\ new.retry_count = old.retry_count + 1
                  ELSE /\ new.status = "DEAD_LETTER"
                       /\ new.retry_count = old.retry_count
        /\ \A i \in Ids :
              jobs[i].status = "DEAD_LETTER" => jobs'[i].status = "DEAD_LETTER"
      ]_vars

\* A job that was retried max_retries times, failed once more and is dead.
C2_Witness ==
    \E i \in Ids :
        /\ jobs[i].status = "DEAD_LETTER"
        /\ jobs[i].retry_count = jobs[i].max_retries
        /\ jobs[i].next_retry_at # NULL

\* C3: every job's retry_count is at most its max_retries, in every state.
C3_RetryCeiling ==
    \A i \in Ids : jobs[i].retry_count <= jobs[i].max_retries

AllowedTransitions ==
    { <<"PENDING", "PROCESSING">>,
      <<"PROCESSING", "COMPLETED">>,
      <<"PROCESSING", "FAILED">>,
      <<"PROCESSING", "DEAD_LETTER">>,
      <<"PROCESSING", "PENDING">> }

\* C4: a job's status changes only PENDING -> PROCESSING (fetch),
\* PROCESSING -> COMPLETED / FAILED / DEAD_LETTER (complete_job) or
\* PROCESSING -> PENDING (retry_job, recover_stale_jobs), each by the
\* operation named; a job is created PENDING.
C4_StatusTransitions ==
    [][ /\ \A i \in Ids :
              jobs'[i].status # jobs[i].status =>
                  /\ <<jobs[i].status, jobs'[i].status>> \in AllowedTransitions
                  /\ jobs'[i].status = "PROCESSING" => WorkerFetch
                  /\ jobs'[i].status \in Terminal => HandlerReturn \/ HandlerRaise
                  /\ jobs'[i].status = "PENDING" => HandlerRaise \/ Startup
        /\ \A i \in DOMAIN jobs' \ Ids : jobs'[i].status = "PENDING"
      ]_vars

\* One job completed, another one back in PENDING after stale recovery.
C4_Witness ==
    \E i \in Ids : \E k \in Ids :
        /\ jobs[i].status = "COMPLETED"
        /\ jobs[k].status = "PENDING"
        /\ jobs[k].started_at = NULL
        /\ jobs[k].retry_count > 0

\* The order the specification states: next_retry_at ascending with NULL
\* before every timestamp, then created_at ascending.
NullsFirstBefore(a, b) ==
    IF (a.next_retry_at = NULL) # (b.next_retry_at = NULL)
        THEN a.next_retry_at = NULL
        ELSE \/ a.next_retry_at < b.next_retry_at
             \/ /\ a.next_retry_at = b.next_retry_at
                /\ a.created_at < b.created_at

\* C5: the job fetch_next_job claims is the first eligible PENDING job under
\* (next_retry_at ascending, NULL first, then created_at ascending): a fresh
\* job goes before a retried job whose delay has elapsed.
C5_NullsFirstOrder ==
    [][ (WorkerFetch /\ wpc' = "exec") =>
            \A k \in Ids \ {wjob'.id} :
                Eligible(jobs[k], now) =>
                    NullsFirstBefore(jobs[wjob'.id], jobs[k])
      ]_vars

\* C6: among PENDING jobs with no next_retry_at, fetch_next_job claims the
\* one created first, whatever the types.
C6_FreshFifo ==
    [][ (WorkerFetch /\ wpc' = "exec" /\ jobs[wjob'.id].next_retry_at = NULL) =>
            \A k \in Ids :
                (jobs[k].status = "PENDING" /\ jobs[k].next_retry_at = NULL) =>
                    jobs[wjob'.id].created_at <= jobs[k].created_at
      ]_vars

\* The older of two fresh jobs of different types is the one in the worker.
C6_Witness ==
    /\ wpc = "exec"
    /\ jobs[wjob.id].next_retry_at = NULL
    /\ \E k \in Ids :
          /\ jobs[k].status = "PENDING"
          /\ jobs[k].next_retry_at = NULL
          /\ jobs[k].created_at > jobs[wjob.id].created_at
          /\ jobs[k].type # wjob.type

\* C7: with the worker left running, every job that was added eventually is
\* COMPLETED, FAILED or DEAD_LETTER.
C7_EveryJobSettles ==
    \A i \in 1..MaxJobs :
        (i \in Ids) ~> (i \in Ids /\ jobs[i].status \in Terminal)

\* Every job slot used and settled, one of them after exhausting its retries.
C7_Witness ==
    /\ Len(jobs) = MaxJobs
    /\ \A i \in Ids : jobs[i].status \in Terminal
    /\ \E i \in Ids : jobs[i].status = "DEAD_LETTER"
    /\ \E i \in Ids : jobs[i].status = "COMPLETED"

\* C8 as claimed: the startup after the worker died returns every job that
\* was left PROCESSING to PENDING.
C8_StartupReclaimsAll ==
    [][ Startup =>
            \A i \in Ids :
                jobs[i].status = "PROCESSING" => jobs'[i].status = "PENDING"
      ]_vars

\* C8 amended: the startup returns a job left PROCESSING to PENDING, with
\* retry_count + 1, started_at cleared and eligible for the next fetch, when
\* its started_at is more than 30 minutes old; a job started more recently
\* is left as it is, PROCESSING.
C8_StartupReclaimsStale ==
    [][ Startup =>
            \A i \in Ids :
                jobs[i].status = "PROCESSING" =>
                    IF jobs[i].started_at < now - 30 * 60
                      THEN /\ jobs'[i].status = "PENDING"
                           /\ jobs'[i].retry_count = jobs[i].retry_count + 1
                           /\ jobs'[i].started_at = NULL
                           /\ Eligible(jobs'[i], now')
                      ELSE jobs'[i] = jobs[i]
      ]_vars

\* After a restart the worker has claimed again a job that only recovery
\* can have returned to PENDING (retry_count raised, no next_retry_at).
C8_Witness ==
    /\ restarts > 0
    /\ wpc = "exec"
    /\ jobs[wjob.id].retry_count > 0
    /\ jobs[wjob.id].next_retry_at = NULL

\* C9: when the worker has stopped on a cancellation, the job it claimed in
\* its last iteration is not left PROCESSING.
C9_NoClaimedJobAbandoned ==
    wpc = "stopped" =>
        (wjob.id = NoJob \/ jobs[wjob.id].status # "PROCESSING")

\* C10: retry_job without a delay sets next_retry_at to the current time
\* plus 10 * 2^(n-1) seconds, n the retry_count after the increment: 10, 20,
\* 40, ..., each gap strictly larger than the one before.
C10_Backoff ==
    [][ HandlerRaise =>
            LET new == jobs'[wjob.id]
                n   == new.retry_count
                gap == new.next_retry_at - now'
            IN  new.status = "PENDING" =>
                    /\ gap = 10 * 2 ^ (n - 1)
                    /\ n = 1 => gap = 10
                    /\ n = 2 => gap = 20
                    /\ n = 3 => gap = 40
                    /\ n > 1 => gap > 10 * 2 ^ (n - 2)
      ]_vars

\* A job just retried for the third time, due in 40 seconds.
C10_Witness ==
    \E i \in Ids :
        /\ jobs[i].status = "PENDING"
        /\ jobs[i].retry_count = 3
        /\ jobs[i].next_retry_at = now + 40

PendingWithKey(js, t, key) ==
    {i \in DOMAIN js :
        js[i].type = t /\ js[i].status = "PENDING" /\ js[i].dedupe_key = key}

\* C11: add_job called with a deduplicate_key while a PENDING job of the same
\* type carries that key inserts nothing, returns None and leaves the stored
\* jobs as they are; two calls in a row with one key persist one job: the
\* first inserts it (when there was no PENDING duplicate) and the second
\* finds it.
C11_DedupeSkipsInsert ==
    [][ \A t \in JobType : \A key \in DedupeKeys \ {""} :
            AddKeyed(t, key) =>
                IF PendingWithKey(jobs, t, key) # {}
                  THEN /\ jobs' = jobs
                       /\ addlast'.ret = NoJob
                  ELSE /\ Len(jobs') = Len(jobs) + 1
                       /\ addlast'.ret = Len(jobs')
                       /\ PendingWithKey(jobs', t, key) = {Len(jobs')}
                       /\ add_job(jobs', t, key) = jobs'
      ]_vars

\* The second of two calls with one key was turned away, and the queue holds
\* the one job of the first call.
C11_Witness ==
    /\ addlast.key = "a"
    /\ addlast.ret = NoJob
    /\ Len(jobs) = 1
    /\ PendingWithKey(jobs, addlast.type, "a") = {1}

\* C12: of two recover_stale_jobs calls in a row, with no job becoming stale
\* in between, the second returns 0 and changes no job.  The startup makes
\* the two calls: the table it leaves is the table after the first call, and
\* the second call counts no stale job in it.
C12_RecoverTwice ==
    [][ Startup =>
            LET once == recover_stale_jobs(jobs, now)
            IN  /\ recover_stale_jobs_returns(once, now) = 0
                /\ jobs' = once
      ]_vars

\* The startup after a long downtime has just run: its first call recovered
\* a job and the worker has not fetched yet.
C12_Witness ==
    /\ restarts > 0
    /\ wpc = "fetch"
    /\ now = LongDowntime
    /\ \E i \in Ids :
          /\ jobs[i].status = "PENDING"
          /\ jobs[i].started_at = NULL
          /\ jobs[i].retry_count = 1

\* The upstream call of the response raised or returned another status than 200.
UpstreamFailed(reply) ==
    reply.raises \/ reply.status # 200

\* C13: when the upstream call of a sync request fails or returns a status
\* other than success, the response holds exactly the local entries and the
\* outgoing token's rawKoboSyncToken is the incoming token's, so the next
\* call sends the same upstream cursor again.
C13_UpstreamFailureKeepsCursor ==
    [][ (SyncRespond /\ UpstreamFailed(sresp'.reply)) =>
            /\ sresp'.entries = sreq.local
            /\ from_base64(sresp'.header).rawKoboSyncToken
                   = from_request(sreq.header).rawKoboSyncToken
            /\ SentCursor(held') = SentCursor(sreq.header)
      ]_vars

\* The store answered 401 and sent a cursor of its own; the response has the
\* local entries and the token still carries the cursor the client came with.
C13_Witness ==
    /\ sresp.status = 200
    /\ sresp.reply.status = 401
    /\ sresp.reply.token = Text("r2")
    /\ sresp.request.token.rawKoboSyncToken = Str("r1")
    /\ from_base64(sresp.header).rawKoboSyncToken = Str("r1")
    /\ sresp.entries # <<>>
    /\ sresp.entries = sresp.local

\* C14: every sync response, whatever the upstream call did, carries a token
\* whose lastSuccessfulSyncPointId is the time of that sync and whose
\* ongoingSyncPointId is null.
C14_LocalCursorAdvances ==
    [][ SyncRespond =>
            LET out == from_base64(sresp'.header)
            IN  /\ sresp'.status = 200
                /\ out.lastSuccessfulSyncPointId.kind = "str"
                /\ out.lastSuccessfulSyncPointId.iso
                /\ out.lastSuccessfulSyncPointId.t = now'
                /\ out.lastSuccessfulSyncPointId.t > sreq.cursor
                /\ out.ongoingSyncPointId.kind = "None"
      ]_vars

\* The upstream call raised; the request came with an ongoingSyncPointId and
\* a cursor that is no timestamp, and the token going out is stamped and
\* cleared.
C14_Witness ==
    /\ sresp.status = 200
    /\ sresp.reply.raises
    /\ sresp.request.token.ongoingSyncPointId = Str("o")
    /\ from_base64(sresp.header).ongoingSyncPointId = None
    /\ from_base64(sresp.header).lastSuccessfulSyncPointId = isoformat(now)

\* C15: a sync that presents the cursor the sync before it returned has no
\* local entry when no Book was changed in between, and exactly the removal
\* entry of a Book when that Book's soft-deletion is the one change in
\* between.
C15_NextSyncDelta ==
    [][ (SyncRespond /\ sreq.header = held /\ held # Absent) =>
            /\ sreq.since = <<>> => sresp'.local = <<>>
            /\ (Len(sreq.since) = 1 /\ sreq.since[1].op = "delete") =>
                   sresp'.local = <<RemoveEntitlement(sreq.since[1].id)>>
      ]_vars

\* The answer to the returned cursor after one soft-deletion: one removal.
C15_Witness ==
    /\ sresp.status = 200
    /\ sresp.request.cursor # NULL
    /\ Len(sresp.request.since) = 1
    /\ sresp.request.since[1].op = "delete"
    /\ sresp.local = <<RemoveEntitlement(sresp.request.since[1].id)>>

\* The ids of the entries of one kind in a list of entries.
EntryIds(entries, tag) ==
    {entries[i].EntitlementId : i \in {k \in DOMAIN entries : entries[k].tag = tag}}

EntryCount(entries, tag) ==
    Cardinality({k \in DOMAIN entries : entries[k].tag = tag})

\* The local cursor of the token of a header text, as the specification
\* reads it: the time its lastSuccessfulSyncPointId writes, NULL when the
\* field is absent, empty or not the text of a timestamp.
ParsableCursor(w) ==
    LET v == from_request(w).lastSuccessfulSyncPointId
    IN  IF v.kind = "str" /\ v.iso THEN v.t ELSE NULL

\* C16: the new/updated entries of a sync response are exactly the
\* non-deleted Books with updated_at after the token's local cursor, all
\* non-deleted Books when the cursor is absent or does not parse, each entry
\* under the Book's id.
C16_NewEntries ==
    [][ \A w \in ClientTexts \cup {held} :
            SyncRequest(w) =>
                /\ spc' = "upstream"
                /\ EntryIds(sreq'.local, "NewEntitlement")
                       = {b \in DOMAIN books :
                             /\ ~books[b].is_deleted
                             /\ (ParsableCursor(w) # NULL =>
                                    books[b].updated_at > ParsableCursor(w))}
                /\ EntryCount(sreq'.local, "NewEntitlement")
                       = Cardinality(EntryIds(sreq'.local, "NewEntitlement"))
      ]_vars

\* C17: a sync has removal entries only when the incoming token has a local
\* cursor that parses, and then exactly one for each soft-deleted Book with
\* updated_at after that cursor; a cold start has none, whatever the catalog
\* holds.
C17_Removals ==
    [][ \A w \in ClientTexts \cup {held} :
            (SyncRequest(w) /\ spc' = "upstream") =>
                /\ EntryIds(sreq'.local, "RemoveEntitlement")
                       = {b \in DOMAIN books :
                             /\ books[b].is_deleted
                             /\ ParsableCursor(w) # NULL
                             /\ books[b].updated_at > ParsableCursor(w)}
                /\ EntryCount(sreq'.local, "RemoveEntitlement")
                       = Cardinality(EntryIds(sreq'.local, "RemoveEntitlement"))
      ]_vars

\* A cold start over a catalog with a soft-deleted Book: no removal entry.
C17_Witness ==
    /\ spc = "upstream"
    /\ sreq.cursor = NULL
    /\ \E b \in DOMAIN books : books[b].is_deleted
    /\ EntryCount(sreq.local, "RemoveEntitlement") = 0
    /\ EntryCount(sreq.local, "NewEntitlement") > 0

UndecodableTexts == {Text(""), Text("0"), Base64NotJson}

\* C19: decoding a text that is no encoded token (not base64, not a valid
\* document, or empty) gives the token with all three fields null, and the
\* sync endpoint treats the request as a cold start and answers with
\* status 200.
C19_UndecodableIsColdStart ==
    [][ /\ \A w \in UndecodableTexts :
              SyncRequest(w) =>
                  /\ \A n \in FieldNames : from_base64(w)[n] = None
                  /\ spc' = "upstream"
                  /\ sreq'.token = KoboSyncToken
                  /\ EntryIds(sreq'.local, "NewEntitlement")
                         = {b \in DOMAIN books : ~books[b].is_deleted}
                  /\ EntryCount(sreq'.local, "RemoveEntitlement") = 0
        /\ (SyncRespond /\ sreq.header \in UndecodableTexts) =>
              sresp'.status = 200
      ]_vars

\* A request with a text that is base64 of no document was answered with
\* every Book of the catalog.
C19_Witness ==
    /\ sresp.status = 200
    /\ sresp.request.header = Base64NotJson
    /\ Len(books) = MaxBooks
    /\ EntryIds(sresp.local, "NewEntitlement") = DOMAIN books

\* A JSON object whose members are null or strings.
WellFormedDocument(w) ==
    /\ w.enc = "b64" /\ w.json /\ w.obj
    /\ \A m \in w.fields : m[2].kind \in {"None", "str"}

\* C20: decoding a well-formed token document that lacks some of the three
\* fields, or has unknown ones, does not fall back to the empty token: an
\* absent field is null and every known field in the document keeps its
\* value.
C20_TolerantDecode ==
    (codec.step = "decoded" /\ WellFormedDocument(codec.wire)) =>
        \A n \in FieldNames :
            IF \E m \in codec.wire.fields : m[1] = n
              THEN \E m \in codec.wire.fields : m[1] = n /\ codec.out[n] = m[2]
              ELSE codec.out[n] = None

-----------------------------------------------------------------------------
(* Properties of the queue under crashes and recovery *)

\* C27: under every interleaving of handler failures, crashes and
\* recover_stale_jobs calls, fetch_next_job returns a job at most
\* max_retries + 1 times.
C27_ClaimCeiling ==
    \A i \in Ids : CopiesIn(i, fetched) <= jobs[i].max_retries + 1

\* C29: a job that is COMPLETED, FAILED or DEAD_LETTER is never returned by
\* fetch_next_job again, and no step of the worker loop or of
\* recover_stale_jobs changes its status, retry_count or next_retry_at.
C29_TerminalIsFinal ==
    [][ \A i \in Ids :
            jobs[i].status \in Terminal =>
                /\ jobs'[i].status = jobs[i].status
                /\ jobs'[i].retry_count = jobs[i].retry_count
                /\ jobs'[i].next_retry_at = jobs[i].next_retry_at
                /\ CopiesIn(i, fetched') = CopiesIn(i, fetched)
      ]_vars

\* A COMPLETED job whose started_at is older than the stale threshold, after
\* a restart whose recovery has run and a fetch that found nothing to claim;
\* and a DEAD_LETTER job whose next_retry_at has passed, left alone by a
\* fetch.
C29_Witness ==
    /\ wpc = "sleep"
    /\ \/ /\ restarts > 0
          /\ \E i \in Ids :
                /\ jobs[i].status = "COMPLETED"
                /\ jobs[i].started_at < now - JOB_STALE_MINUTES * 60
       \/ \E i \in Ids :
             /\ jobs[i].status = "DEAD_LETTER"
             /\ jobs[i].next_retry_at # NULL
             /\ jobs[i].next_retry_at <= now

\* C30: a job whose next_retry_at is set is PENDING, and was put there by
\* retry_job (its retry_count is not 0); a PROCESSING, COMPLETED, FAILED or
\* DEAD_LETTER job has no next_retry_at.
C30_RetryAtOnlyWhilePending ==
    \A i \in Ids :
        jobs[i].next_retry_at # NULL =>
            /\ jobs[i].status = "PENDING"
            /\ jobs[i].retry_count > 0

\* C23: when the job the worker holds has a type with no handler, the
\* worker's next step sets the job FAILED with its retry_count unchanged,
\* takes no time (no handler is awaited) and goes back to fetching.
C23_UnknownTypeFails ==
    [][ (wpc = "exec" /\ wjob.type \notin JobType /\ wpc' # wpc) =>
            /\ jobs'[wjob.id].status = "FAILED"
            /\ jobs'[wjob.id].retry_count = jobs[wjob.id].retry_count
            /\ jobs'[wjob.id].next_retry_at = jobs[wjob.id].next_retry_at
            /\ now' = now
            /\ wpc' = "fetch"
      ]_vars

\* A job of unknown type is FAILED with no retry counted, and the worker
\* has claimed the job created after it.
C23_Witness ==
    /\ wpc = "exec"
    /\ \E i \in Ids :
          /\ jobs[i].type \notin JobType
          /\ jobs[i].status = "FAILED"
          /\ jobs[i].retry_count = 0
          /\ wjob.id # i
          /\ jobs[wjob.id].created_at > jobs[i].created_at

\* C24: complete_job and retry_job called with an id the table does not
\* hold leave every job as it was and do not raise.
C24_UnknownIdIsNoOp ==
    [][ \A i \in CallIds \ Ids :
            ( \/ CallRetry(i)
              \/ \E error \in {"NULL", "call"} :
                    \E status \in {"NULL", "FAILED", "DEAD_LETTER"} :
                       CallComplete(i, error, status) ) =>
                /\ jobs' = jobs
                /\ ~qcall'.raised
      ]_vars

\* Each of the two methods has been called with an id the table did not
\* hold, the table holding a PROCESSING job and a PENDING job at the time.
C24_Witness ==
    /\ qcall.op \in {"complete_job", "retry_job"}
    /\ qcall.id \notin DOMAIN qcall.before
    /\ \E i \in DOMAIN qcall.before : qcall.before[i].status = "PROCESSING"
    /\ \E i \in DOMAIN qcall.before : qcall.before[i].status = "PENDING"
    /\ jobs = qcall.before

StatesOfBook(rs, b) == {i \in DOMAIN rs : rs[i].book_id = b}

\* C25: after every reading-state update for a local book, the first and
\* every later one, the book has exactly one ReadingState row, and its
\* status, progress and location are the incoming ones.
C25_StateFollowsUpdates ==
    [][ \A b \in LocalBookIds : \A incoming \in IncomingStates :
            PutReadingState(b, incoming) =>
                /\ Cardinality(StatesOfBook(rstates', b)) = 1
                /\ \A i \in StatesOfBook(rstates', b) :
                      /\ incoming.Status # Missing =>
                            rstates'[i].status = incoming.Status
                      /\ incoming.ProgressPercent # Missing =>
                            rstates'[i].progress_percent = incoming.ProgressPercent
                      /\ incoming.LocationValue # Missing =>
                            rstates'[i].location_value = incoming.LocationValue
      ]_vars

\* C26: a Book created, updated or soft-deleted while a sync request was in
\* progress (after its catalog query, before its local cursor was stamped)
\* is reported, as a new or a removed entry, by the next sync that presents
\* the cursor that request returned.
C26_NoChangeLost ==
    [][ ( /\ SyncRespond
          /\ sresp.status = 200
          /\ sresp.header = held
          /\ sreq.header = held ) =>
            \A k \in DOMAIN sresp.inflight :
                sresp.inflight[k].id \in
                    EntryIds(sresp'.local, "NewEntitlement")
                        \cup EntryIds(sresp'.local, "RemoveEntitlement")
      ]_vars

-----------------------------------------------------------------------------
(* Properties of the handlers *)

\* The payload of the job the worker holds.
HeldPayload == jobcols[wjob.id].payload

\* The worker runs the ingest handler on an ADD event for a path at which a
\* supported file exists.
AddRun(path) ==
    /\ IngestRun
    /\ HeldPayload.event = "ADD"
    /\ HeldPayload.path = path
    /\ files[path] # NoFile
    /\ suffix(path) \in SUPPORTED_EXTENSIONS

RecordedAt(path) ==
    {b \in DOMAIN books :
        /\ books[b].file_path = path
        /\ books[b].file_size = files[path].size
        /\ books[b].file_hash = files[path].hash}

\* C21: processing an ADD event for a path whose file has the size and hash
\* of the Book recorded at that path creates no Book, writes no Book field
\* and enqueues no job.
C21_SameFileIsNoOp ==
    [][ \A path \in Paths :
            (AddRun(path) /\ RecordedAt(path) # {}) =>
                /\ books' = books
                /\ Len(jobs') = Len(jobs)
                /\ jobcols' = jobcols
                /\ jobs'[wjob.id].status = "COMPLETED"
      ]_vars

\* Two ADD events for one path are done, no other event was ever enqueued
\* (so the file never changed after it was written), and there is the one
\* Book with its two follow-on jobs.
C21_Witness ==
    \E path \in Paths :
        /\ Cardinality({i \in Ids : jobs[i].type = "INGEST"}) = 2
        /\ \A i \in Ids :
              jobs[i].type = "INGEST" =>
                  /\ jobs[i].status = "COMPLETED"
                  /\ jobcols[i].payload = Payload("ADD", path, 0)
        /\ Len(books) = 1
        /\ RecordedAt(path) = {1}
        /\ Len(jobs) = 4

\* The run of the CONVERT handler in which the converter is called: the
\* Book exists, is not converted, and its file is there.
ConverterCalled(converted) ==
    /\ ConvertRun(converted)
    /\ HeldPayload.book_id \in DOMAIN books
    /\ ~books[HeldPayload.book_id].is_converted
    /\ files[books[HeldPayload.book_id].file_path] # NoFile

\* C22: when the first run of a CONVERT job gets None from the converter,
\* the worker returns the job to PENDING; when a later run gets a path, the
\* Book is_converted with that kepub_path and the job is COMPLETED.
C22_ConvertRetried ==
    [][ /\ (ConverterCalled(FALSE) /\ CopiesIn(wjob.id, fetched) = 1) =>
              /\ jobs'[wjob.id].status = "PENDING"
              /\ jobs'[wjob.id].retry_count = 1
              /\ books' = books
        /\ (ConverterCalled(TRUE) /\ CopiesIn(wjob.id, fetched) > 1) =>
              /\ books'[HeldPayload.book_id].is_converted
              /\ books'[HeldPayload.book_id].kepub_path
                    = with_suffix(books[HeldPayload.book_id].file_path)
              /\ jobs'[wjob.id].status = "COMPLETED"
      ]_vars

\* A CONVERT job that failed once, on a converter that returned None, is
\* COMPLETED after its second run and its Book is converted.
C22_Witness ==
    \E i \in Ids :
        /\ jobs[i].type = "CONVERT"
        /\ jobs[i].status = "COMPLETED"
        /\ jobs[i].retry_count = 1
        /\ CopiesIn(i, fetched) = 2
        /\ jobcols[i].error_message = "RuntimeError"
        /\ books[jobcols[i].payload.book_id].is_converted
        /\ books[jobcols[i].payload.book_id].kepub_path # NoPath

\* C28: after the worker has processed, without an error, an ADD event for
\* a path at which a supported file exists, a Book with that file_path is in
\* the catalog and is not marked deleted.
C28_AddLeavesLiveBook ==
    [][ \A path \in Paths :
            (AddRun(path) /\ jobs'[wjob.id].status = "COMPLETED") =>
                \E b \in DOMAIN books' :
                    /\ books'[b].file_path = path
                    /\ ~books'[b].is_deleted
      ]_vars

-----------------------------------------------------------------------------
(* Properties of fetch_next_job, recover_stale_jobs and add_job *)

\* The PENDING jobs whose next_retry_at is null or not after the clock.
DueJobs == {i \in Ids : /\ jobs[i].status = "PENDING"
                        /\ \/ jobs[i].next_retry_at = NULL
                           \/ jobs[i].next_retry_at <= now}

\* C31: fetch_next_job returns null exactly when no PENDING job has
\* next_retry_at null or at most the current time; the job it claims is
\* PENDING and its retry delay, if any, has elapsed.
C31_FetchNullIffNoneDue ==
    [][ WorkerFetch =>
            /\ (wjob' = NoJobRow) <=> (DueJobs = {})
            /\ wjob' # NoJobRow => wjob'.id \in DueJobs
            /\ \A i \in Ids \ DueJobs : jobs'[i] = jobs[i]
      ]_vars

\* The worker sleeps after a fetch that returned null although a PENDING
\* job is there, its retry delay not yet elapsed, next to a settled job.
C31_Witness ==
    /\ wpc = "sleep"
    /\ \E i \in Ids : /\ jobs[i].status = "PENDING"
                       /\ jobs[i].next_retry_at # NULL
                       /\ jobs[i].next_retry_at > now
    /\ \E i \in Ids : jobs[i].status \in Terminal

\* The PROCESSING jobs started more than 30 minutes before the clock.
StaleJobs == {i \in Ids : /\ jobs[i].status = "PROCESSING"
                          /\ jobs[i].started_at < now - 30 * 60}

\* C32: recover_stale_jobs changes exactly the PROCESSING jobs whose
\* started_at is more than 30 minutes old: each becomes PENDING with
\* started_at cleared and retry_count + 1, and their number is returned;
\* every other job is left as it is.
C32_RecoverFrame ==
    [][ Startup =>
            /\ \A i \in StaleJobs :
                  jobs'[i] = [jobs[i] EXCEPT !.status = "PENDING",
                                             !.started_at = NULL,
                                             !.retry_count = @ + 1]
            /\ \A i \in Ids \ StaleJobs : jobs'[i] = jobs[i]
            /\ recover_stale_jobs_returns(jobs, now) = Cardinality(StaleJobs)
            /\ DOMAIN jobs' = Ids
      ]_vars

\* After a restart a stale job was set back to PENDING while a settled job
\* that was started as long ago kept its row.
C32_Witness ==
    /\ restarts > 0
    /\ wpc = "fetch"
    /\ \E i \in Ids : /\ jobs[i].status = "PENDING"
                       /\ jobs[i].started_at = NULL
                       /\ jobs[i].retry_count > 0
                       /\ jobs[i].next_retry_at = NULL
    /\ \E i \in Ids : /\ jobs[i].status \in Terminal
                       /\ jobs[i].started_at # NULL
                       /\ jobs[i].started_at < now - 30 * 60

\* C35: at most one PENDING job of a type carries a given dedupe key, in
\* every state.
C35_OnePendingPerKey ==
    \A t \in JobType : \A key \in DedupeKeys \ {""} :
        Cardinality(PendingWithKey(jobs, t, key)) <= 1

-----------------------------------------------------------------------------
(* Properties of the upstream part of a sync response *)

\* The store answered the upstream call with success and a next cursor.
UpstreamGaveCursor(reply) ==
    /\ ~reply.raises
    /\ reply.status = 200
    /\ reply.token # Absent

\* C36: when the upstream call returns success with a next-cursor header,
\* the outgoing token's rawKoboSyncToken is that cursor, and the request
\* sent upstream carried the incoming token's rawKoboSyncToken as its
\* cursor.
C36_UpstreamCursorAdopted ==
    [][ (SyncRespond /\ UpstreamGaveCursor(sresp'.reply)) =>
            /\ from_base64(sresp'.header).rawKoboSyncToken
                   = FieldOf(sresp'.reply.token)
            /\ Truthy(sreq.token.rawKoboSyncToken) =>
                   SentCursor(sreq.header) = HeaderOf(sreq.token.rawKoboSyncToken)
      ]_vars

-----------------------------------------------------------------------------
(* Properties of the ingest handler's DELETE and new-file branches *)

\* The worker runs the ingest handler on a DELETE event for a path.
DeleteRun(path) ==
    /\ IngestRun
    /\ HeldPayload.event = "DELETE"
    /\ HeldPayload.path = path

BooksAt(path) == {b \in DOMAIN books : books[b].file_path = path}

\* C39: a DELETE event for a path marks the Book at that path deleted
\* (is_deleted, deleted_at set, updated_at advanced) and leaves every other
\* column and Book alone; a DELETE for a path with no Book changes no Book;
\* no step ever removes a Book.
C39_DeleteOnlyMarks ==
    [][ /\ \A path \in Paths :
              DeleteRun(path) =>
                  /\ \A b \in BooksAt(path) :
                        /\ books'[b] = [books[b] EXCEPT !.is_deleted = TRUE,
                                                         !.deleted_at = now',
                                                         !.updated_at = now']
                        /\ books'[b].updated_at > books[b].updated_at
                  /\ \A b \in DOMAIN books \ BooksAt(path) : books'[b] = books[b]
                  /\ Len(jobs') = Len(jobs)
                  /\ jobs'[wjob.id].status = "COMPLETED"
        /\ DOMAIN books \subseteq DOMAIN books'
      ]_vars

\* A DELETE event is done: the Book at its path is marked deleted and
\* stamped, the other Book is live, and both are still in the table.
C39_Witness ==
    /\ Len(books) = 2
    /\ \E b \in DOMAIN books : /\ books[b].is_deleted
                                /\ books[b].deleted_at = books[b].updated_at
    /\ \E b \in DOMAIN books : ~books[b].is_deleted
    /\ \E i \in Ids : /\ jobs[i].type = "INGEST"
                       /\ jobs[i].status = "COMPLETED"
                       /\ jobcols[i].payload.event = "DELETE"

\* The paths whose suffix is .epub and whose stem does not end in .kepub.
Convertible == {"/a.epub"}

JobsFor(js, cols, type, b) ==
    {i \in DOMAIN js : js[i].type = type /\ cols[i].payload.book_id = b}

\* C40: an ADD event for a supported existing file that matches no Book by
\* (size, hash) and none by path creates exactly one Book and enqueues
\* exactly one METADATA job for it, plus exactly one CONVERT job when the
\* file is an .epub that is not a .kepub.epub, and none otherwise.
C40_NewFileFollowOns ==
    [][ \A path \in Paths :
            ( /\ AddRun(path)
              /\ BooksAt(path) = {}
              /\ \A b \in DOMAIN books :
                     ~(/\ books[b].file_size = files[path].size
                       /\ books[b].file_hash = files[path].hash) ) =>
                LET new == Len(books) + 1
                IN  /\ Len(books') = new
                    /\ SubSeq(books', 1, Len(books)) = books
                    /\ books'[new].file_path = path
                    /\ books'[new].file_hash = files[path].hash
                    /\ ~books'[new].is_deleted
                    /\ Cardinality(JobsFor(jobs', jobcols', "METADATA", new)) = 1
                    /\ Cardinality(JobsFor(jobs', jobcols', "CONVERT", new))
                           = IF path \in Convertible THEN 1 ELSE 0
                    /\ Len(jobs') = Len(jobs) + 1
                                       + IF path \in Convertible THEN 1 ELSE 0
                    /\ \A i \in DOMAIN jobs' \ DOMAIN jobs :
                           jobs'[i].status = "PENDING"
      ]_vars

\* Two new files were ingested: the .epub has its METADATA and its CONVERT
\* job, the .kepub.epub its METADATA job alone.
C40_Witness ==
    /\ Len(books) = 2
    /\ \A b \in DOMAIN books :
          /\ Cardinality(JobsFor(jobs, jobcols, "METADATA", b)) = 1
          /\ Cardinality(JobsFor(jobs, jobcols, "CONVERT", b))
                 = IF books[b].file_path \in Convertible THEN 1 ELSE 0
    /\ \E b \in DOMAIN books : books[b].file_path \in Convertible
    /\ \E b \in DOMAIN books : books[b].file_path \notin Convertible

-----------------------------------------------------------------------------
(* Properties of the ingest handler's move branch and of its retries *)

\* The Books at another path that have the size and hash of the file at path.
SameContentElsewhere(path) ==
    {b \in DOMAIN books :
        /\ books[b].file_path # path
        /\ books[b].file_size = files[path].size
        /\ books[b].file_hash = files[path].hash}

\* C38: an ADD event for a path whose file has the size and hash of a Book
\* recorded at a different path sets that Book's file_path to the path,
\* clears its deleted flag and advances its updated_at; it creates no Book
\* and enqueues no job.  Stated for the first run of the event's job.
C38_MoveUpdatesPath ==
    [][ \A path \in Paths :
            ( /\ AddRun(path)
              /\ CopiesIn(wjob.id, fetched) = 1
              /\ RecordedAt(path) = {}
              /\ SameContentElsewhere(path) # {} ) =>
                /\ \E b \in SameContentElsewhere(path) :
                      /\ books'[b].file_path = path
                      /\ ~books'[b].is_deleted
                      /\ books'[b].updated_at = now'
                      /\ books'[b].updated_at > books[b].updated_at
                /\ Len(books') = Len(books)
                /\ Len(jobs') = Len(jobs)
      ]_vars

\* C34: once no INGEST job is waiting or running, every Book has a METADATA
\* job in the queue, also when a run of its ingest job failed after the
\* Book was committed and before the job was enqueued.
C34_BookHasFollowOns ==
    (\A i \in Ids : jobs[i].type = "INGEST" => jobs[i].status \in Terminal) =>
        \A b \in DOMAIN books : JobsFor(jobs, jobcols, "METADATA", b) # {}

-----------------------------------------------------------------------------
(* Properties of the worker's handling of a raising queue call *)

\* C33: when a queue call raises after a job was claimed, the job ends the
\* iteration as after a handler failure: PENDING with retry_count + 1 when
\* retry_count < max_retries, DEAD_LETTER otherwise, and the worker goes on
\* to its next fetch; when fetch_next_job raises, no job is changed, the
\* worker sleeps the error backoff and fetches again.
C33_QueueErrorIsHandled ==
    [][ /\ \A returned \in BOOLEAN : \A n \in 1..3 :
              QueueCallsRaise(returned, n) =>
                  /\ jobs'[wjob.id].status
                         = IF wjob.retry_count < wjob.max_retries
                             THEN "PENDING" ELSE "DEAD_LETTER"
                  /\ jobs'[wjob.id].status = "PENDING" =>
                         jobs'[wjob.id].retry_count = jobs[wjob.id].retry_count + 1
                  /\ \A i \in Ids \ {wjob.id} : jobs'[i] = jobs[i]
                  /\ wpc' = "fetch"
        /\ FetchRaises =>
              /\ jobs' = jobs
              /\ wpc' = "fetch"
              /\ now' = now + WORKER_ERROR_BACKOFF
      ]_vars

====
